---- MODULE Spec2Model ----
(***************************************************************************)
(* Risk model lifecycle of backend/routes/model_management.py, the live    *)
(* model propagator of backend/services/risk_model_service.py, the model   *)
(* performance log, the risk evaluation and the similarity ranking of      *)
(* backend/services/fraud_detection.py and the evaluation route of         *)
(* backend/routes/transaction.py.                                          *)
(*                                                                         *)
(* The store is the risk_models collection: a sequence of documents in     *)
(* natural (insertion) order, the position of a document being its _id.    *)
(* Every request handler is a coroutine: each awaited store operation is   *)
(* one atomic step, and other handlers may run between two steps.  A step  *)
(* is the store operation together with the synchronous code that follows  *)
(* it up to the next await, so a datetime.now() argument of the next       *)
(* operation is read in the step before that operation reaches the store.  *)
(***************************************************************************)
EXTENDS Integers, Sequences, FiniteSets, TLC

VARIABLES store, clock, lock, tx, req, out, svc, perf, customers, assessment, response, calc, model_risk, sockets

vars == <<store, clock, lock, tx, req, out, svc, perf, customers, assessment, response, calc, model_risk, sockets>>

\* the state outside the risk_models collection and its change feed
Outside == <<perf, customers, assessment, response, calc, model_risk, sockets>>

----------------------------------------------------------------------------
(* Bounds of the model *)

NumReq == 2

MaxModels == 3

MaxClock == 6

Reqs == 1..NumReq

ModelIds == {"m1", "m2"}

\* the server processes, each with its own _risk_model_service
Procs == {"p1", "p2"}

VersionArgs == {0, 2}

----------------------------------------------------------------------------
(* Values *)

None == "None"

Empty == ""

Statuses == {"draft", "active", "inactive", "archived"}

StatusInputs == {None, "active", "archived", "retired"}

PerformanceUnset == "unset"

Truthy(v) == v \notin {None, Empty}

NoDoc == [kind |-> "none"]

IdleReq ==
  [op |-> "none", pc |-> "idle", modelId |-> None, version |-> 0,
   target |-> 0, update |-> None, doc |-> NoDoc]

\* the response sent by the last step, if it ended a request: "ok" for a
\* returned message or document, "error" for a raised HTTPException, "failed"
\* for a store exception that leaves the handler
NoOut == "none"

NoTx == [open |-> FALSE, writes |-> {}, dirty |-> {}]

\* no evaluation has returned yet
NoAssessment ==
  [kind |-> "none", score |-> 0, level |-> None, flags |-> <<>>, transaction_type |-> None,
   customer_id |-> None, customer |-> 0, ran |-> {}, lookups |-> 0, feedback |-> FALSE,
   failed |-> "none"]

\* POST /transactions/evaluate has not answered yet; retrieved is the list
\* find_similar_transactions returned to the handler
NoResponse ==
  [kind |-> "none", failed |-> "none", risk_assessment |-> NoAssessment,
   retrieved |-> <<>>, similar_transactions |-> <<>>, similar_transactions_count |-> 0,
   similarity_risk_score |-> 0]

\* the websockets that connect to /models/change-stream
Observers == {"w1", "w2", "w3"}

\* no websocket has connected: active_connections = [].  handler[w] is the
\* position of websocket_endpoint for w and whether its client is still
\* connected; removed are the websockets a handler took out of
\* active_connections after their client had gone; cleaned and appended tell
\* whether cleanup_stale_connections has run, and whether a websocket was
\* appended since.
NoSockets ==
  [active_connections |-> <<>>,
   handler |-> [w \in Observers |-> [pc |-> "new", connected |-> FALSE]],
   removed |-> {}, cleaned |-> FALSE, appended |-> FALSE]

\* evaluate_risk has not returned yet
NoRisk == [kind |-> "none"]

\* no call of a scoring function is pending or has returned
NoCalc == [fn |-> "none", args |-> <<>>, done |-> FALSE, result |-> None]

CreateInputs == {[description |-> "A", weights |-> "A", thresholds |-> "A", riskFactors |-> "A"]}

UpdateInputs ==
  {u \in [description : {None, Empty, "B"}, weights : {None, "B"},
          thresholds : {None, "B"}, riskFactors : {None, "B"},
          status : StatusInputs] :
     /\ u.weights = u.thresholds /\ u.thresholds = u.riskFactors
     /\ (u.weights = "B") = (u.description = "B")
     /\ u.description = Empty => u.status = None}

----------------------------------------------------------------------------
(* Store queries *)

SetMin(S) == CHOOSE x \in S : \A y \in S : x <= y

\* find_one(filter) without sort: the first match in natural order, 0 if none
FindOne(S) == IF S = {} THEN 0 ELSE SetMin(S)

\* {"modelId": model_id} plus {"version": version} when version is truthy
Matches(s, mid, ver) ==
  {i \in DOMAIN s : s[i].modelId = mid /\ (ver = 0 \/ s[i].version = ver)}

\* find_one({"modelId": model_id, "status": {"$ne": "archived"}}, sort version desc):
\* the candidates of highest version
Latest(s, mid) ==
  LET c == {i \in DOMAIN s : s[i].modelId = mid /\ s[i].status # "archived"}
  IN {i \in c : \A j \in c : s[j].version <= s[i].version}

\* mutant of DeactivateFilter: the filter matches no document
DeactivateFilterNone(s) == {}

\* the filter {"status": "active"} of update_many
DeactivateFilter(s) == {i \in DOMAIN s : s[i].status = "active"}

\* count_documents({"status": "active"})
CountActive(s) == Cardinality({i \in DOMAIN s : s[i].status = "active"})

\* requests that have built a document and not yet inserted it
PendingInserts ==
  Cardinality({r \in Reqs : req[r].pc \in {"create_insert", "update_insert"}})
    + Cardinality({p \in Procs : svc[p].pc = "load_insert"})

\* the handler of request r returns or raises: the response is sent and r is free again
Respond(r, result) ==
  /\ req' = [req EXCEPT ![r] = IdleReq]
  /\ out' = result

\* the handler of request r goes on to its next await
Continue(r, next) ==
  /\ req' = [req EXCEPT ![r] = next]
  /\ out' = NoOut

Free(r) == req[r].pc = "idle"

----------------------------------------------------------------------------
(* Store writes *)

\* update_one({"_id": id}, {"$set": u}) applied to a document
ApplySet(d, u) ==
  [d EXCEPT !.description = IF u.description # None THEN u.description ELSE @,
            !.weights = IF u.weights # None THEN u.weights ELSE @,
            !.thresholds = IF u.thresholds # None THEN u.thresholds ELSE @,
            !.riskFactors = IF u.riskFactors # None THEN u.riskFactors ELSE @,
            !.status = IF u.status # None THEN u.status ELSE @,
            !.updatedAt = u.updatedAt]

StatusSet(status, ts) ==
  [kind |-> "set", description |-> None, weights |-> None, thresholds |-> None,
   riskFactors |-> None, status |-> status, updatedAt |-> ts]

\* a write outside a transaction waits while an open transaction holds the document
Writable(id) == \A w \in tx.writes : w.id # id

\* a committed write to a document after the transaction's snapshot
NoteWrite(id) == IF tx.open THEN [tx EXCEPT !.dirty = @ \cup {id}] ELSE tx

----------------------------------------------------------------------------
(* The change feed of the risk_models collection *)

\* watch(pipeline) of the propagator passes no full_document option
FullDocumentOption == "default"

\* a change event: an insert carries the inserted document, an update carries
\* the document only under full_document='updateLookup'
ChangeEvent(operationType, doc) ==
  [operationType |-> operationType,
   fullDocument |-> IF operationType = "update" /\ FullDocumentOption # "updateLookup"
                    THEN NoDoc ELSE doc]

\* the pipeline of start_change_stream: operationType in insert, update, replace
\* and fullDocument.status = "active"
PipelineMatches(e) ==
  /\ e.operationType \in {"insert", "update", "replace"}
  /\ e.fullDocument # NoDoc
  /\ e.fullDocument.status = "active"

\* the update events of the documents ids (in this order) that a write changed
UpdateEvents(s, t, ids) ==
  LET changed == SelectSeq(ids, LAMBDA i : i \in DOMAIN s /\ t[i] # s[i])
  IN [k \in 1..Len(changed) |-> ChangeEvent("update", t[changed[k]])]

RECURSIVE IdsInOrder(_)
IdsInOrder(S) == IF S = {} THEN <<>> ELSE <<SetMin(S)>> \o IdsInOrder(S \ {SetMin(S)})

\* the documents of a set of writes in the order written: last is written last
WriteOrder(ws, last) ==
  LET ids == {w.id : w \in ws}
  IN IF last \in ids THEN IdsInOrder(ids \ {last}) \o <<last>> ELSE IdsInOrder(ids)

\* the events that pass the pipeline reach every open change stream
Publish(sv, events) ==
  [p \in Procs |->
     IF sv[p].watcher = "open"
     THEN [sv[p] EXCEPT !.queue = @ \o SelectSeq(events, PipelineMatches)]
     ELSE sv[p]]

----------------------------------------------------------------------------
(* create_risk_model *)

\* version = existing["version"] + 1 if find_one({"modelId": ...}) found a document, else 1
NextVersion(s, mid) ==
  LET existing == FindOne(Matches(s, mid, 0))
  IN IF existing # 0 THEN s[existing].version + 1 ELSE 1

NewModel(mid, version, c, ts) ==
  [modelId |-> mid, version |-> version, status |-> "draft",
   createdAt |-> ts, updatedAt |-> ts,
   description |-> c.description, weights |-> c.weights,
   thresholds |-> c.thresholds, riskFactors |-> c.riskFactors,
   performance |-> PerformanceUnset]

CreateFind(r, mid, c) ==
  /\ Free(r)
  /\ clock < MaxClock
  /\ Len(store) + PendingInserts < MaxModels
  /\ Continue(r,
       [IdleReq EXCEPT !.op = "create", !.pc = "create_insert",
                       !.doc = NewModel(mid, NextVersion(store, mid), c, clock)])
  /\ clock' = clock + 1
  /\ UNCHANGED <<store, lock, tx, svc>>
  /\ UNCHANGED Outside

CreateInsert(r) ==
  /\ req[r].pc = "create_insert"
  /\ store' = Append(store, req[r].doc)
  /\ svc' = Publish(svc, <<ChangeEvent("insert", req[r].doc)>>)
  /\ Respond(r, "ok")
  /\ UNCHANGED <<clock, lock, tx>>
  /\ UNCHANGED Outside

----------------------------------------------------------------------------
(* update_risk_model *)

\* mutant of ForkModel: every field is taken from the update, given or not
ForkFromUpdate(model, u, ts) ==
  [model EXCEPT
     !.version = model.version + 1,
     !.status = "draft",
     !.updatedAt = ts,
     !.description = u.description,
     !.weights = u.weights,
     !.thresholds = u.thresholds,
     !.riskFactors = u.riskFactors,
     !.performance = PerformanceUnset]

\* the new version forked from an active model
ForkModel(model, u, ts) ==
  [model EXCEPT
     !.version = model.version + 1,
     !.status = "draft",
     !.updatedAt = ts,
     !.description = IF Truthy(u.description) THEN u.description ELSE @,
     !.weights = IF Truthy(u.weights) THEN u.weights ELSE @,
     !.thresholds = IF Truthy(u.thresholds) THEN u.thresholds ELSE @,
     !.riskFactors = IF Truthy(u.riskFactors) THEN u.riskFactors ELSE @,
     !.performance = PerformanceUnset]

\* the $set document of an in-place update
UpdateSetDoc(u, ts) ==
  [kind |-> "set",
   description |-> IF Truthy(u.description) THEN u.description ELSE None,
   weights |-> IF Truthy(u.weights) THEN u.weights ELSE None,
   thresholds |-> IF Truthy(u.thresholds) THEN u.thresholds ELSE None,
   riskFactors |-> IF Truthy(u.riskFactors) THEN u.riskFactors ELSE None,
   status |-> IF Truthy(u.status) THEN u.status ELSE None,
   updatedAt |-> ts]

\* model["status"] == "active" and update.status != "archived"
ForksNewVersion(model, u) == model.status = "active" /\ u.status # "archived"

UpdateFind(r, mid, u) ==
  /\ Free(r)
  /\ IF Latest(store, mid) = {}
     THEN /\ Respond(r, "error")
          /\ UNCHANGED clock
     ELSE \E i \in Latest(store, mid) :
            IF ForksNewVersion(store[i], u)
            THEN /\ clock < MaxClock
                 /\ Len(store) + PendingInserts < MaxModels
                 /\ Continue(r,
                      [IdleReq EXCEPT !.op = "update", !.pc = "update_insert", !.target = i,
                                      !.update = u,
                                      !.doc = ForkModel(store[i], u, clock)])
                 /\ clock' = clock + 1
            ELSE IF Truthy(u.status) /\ u.status = "active"
            THEN /\ Respond(r, "error")
                 /\ UNCHANGED clock
            ELSE /\ clock < MaxClock
                 /\ Continue(r,
                      [IdleReq EXCEPT !.op = "update", !.pc = "update_set", !.target = i,
                                      !.doc = UpdateSetDoc(u, clock)])
                 /\ clock' = clock + 1
  /\ UNCHANGED <<store, lock, tx, svc>>
  /\ UNCHANGED Outside

UpdateInsert(r) ==
  /\ req[r].pc = "update_insert"
  /\ store' = Append(store, req[r].doc)
  /\ svc' = Publish(svc, <<ChangeEvent("insert", req[r].doc)>>)
  /\ Respond(r, "ok")
  /\ UNCHANGED <<clock, lock, tx>>
  /\ UNCHANGED Outside

\* update_one({"_id": model["_id"]}, {"$set": doc}); modified_count == 0 raises 400
WriteOne(r) ==
  LET id == req[r].target
      new == ApplySet(store[id], req[r].doc)
  IN /\ Writable(id)
     /\ store' = [store EXCEPT ![id] = new]
     /\ svc' = Publish(svc, UpdateEvents(store, store', <<id>>))
     /\ tx' = NoteWrite(id)
     /\ Respond(r, IF new = store[id] THEN "error" ELSE "ok")
     /\ UNCHANGED <<clock, lock>>
     /\ UNCHANGED Outside

UpdateSet(r) ==
  /\ req[r].pc = "update_set"
  /\ WriteOne(r)

----------------------------------------------------------------------------
(* archive_risk_model *)

\* mutant of OnlyActive: active_count < 1
NoActive(activeCount) == activeCount < 1

\* active_count <= 1
OnlyActive(activeCount) == activeCount <= 1

ArchiveFind(r, mid, ver) ==
  /\ Free(r)
  /\ LET i == FindOne(Matches(store, mid, ver))
     IN IF i = 0
        THEN /\ Respond(r, "error")
             /\ UNCHANGED clock
        ELSE IF store[i].status = "active"
        THEN /\ Continue(r,
                  [IdleReq EXCEPT !.op = "archive", !.pc = "archive_count", !.target = i])
             /\ UNCHANGED clock
        ELSE /\ clock < MaxClock
             /\ Continue(r,
                  [IdleReq EXCEPT !.op = "archive", !.pc = "archive_set", !.target = i,
                                  !.doc = StatusSet("archived", clock)])
             /\ clock' = clock + 1
  /\ UNCHANGED <<store, lock, tx, svc>>
  /\ UNCHANGED Outside

ArchiveCount(r) ==
  /\ req[r].pc = "archive_count"
  /\ IF OnlyActive(CountActive(store))
     THEN /\ Respond(r, "error")
          /\ UNCHANGED clock
     ELSE /\ clock < MaxClock
          /\ Continue(r, [req[r] EXCEPT !.pc = "archive_set",
                                         !.doc = StatusSet("archived", clock)])
          /\ clock' = clock + 1
  /\ UNCHANGED <<store, lock, tx, svc>>
  /\ UNCHANGED Outside

ArchiveSet(r) ==
  /\ req[r].pc = "archive_set"
  /\ WriteOne(r)

----------------------------------------------------------------------------
(* restore_archived_model *)

RestoreFind(r, mid, ver) ==
  /\ Free(r)
  /\ LET i == FindOne({j \in Matches(store, mid, ver) : store[j].status = "archived"})
     IN IF i = 0
        THEN /\ Respond(r, "error")
             /\ UNCHANGED clock
        ELSE /\ clock < MaxClock
             /\ Continue(r,
                  [IdleReq EXCEPT !.op = "restore", !.pc = "restore_set", !.target = i,
                                  !.doc = StatusSet("inactive", clock)])
             /\ clock' = clock + 1
  /\ UNCHANGED <<store, lock, tx, svc>>
  /\ UNCHANGED Outside

RestoreSet(r) ==
  /\ req[r].pc = "restore_set"
  /\ WriteOne(r)

----------------------------------------------------------------------------
(* activate_risk_model *)

\* mutant of UpdateManyInSession: update_many is called without the session
UpdateManyNoSession == FALSE

\* session=session of update_many: the write belongs to the transaction
UpdateManyInSession == TRUE

\* session=session of update_one
UpdateOneInSession == TRUE

\* the documents written by update_many(filter, {"$set": {"status": "inactive", ...}})
DeactivateWrites(s, ts) ==
  {[id |-> i, status |-> "inactive", updatedAt |-> ts] : i \in DeactivateFilter(s)}

\* mutant of ActivateWrite: the filter of update_one matches no document
ActivateWriteNone(id, ts) == {}

\* the document written by update_one({"_id": id}, {"$set": {"status": "active", ...}})
ActivateWrite(id, ts) == {[id |-> id, status |-> "active", updatedAt |-> ts]}

\* writes applied to the store, at once
ApplyWrites(s, ws) ==
  [i \in DOMAIN s |->
     IF \E w \in ws : w.id = i
     THEN LET w == CHOOSE w \in ws : w.id = i
          IN [s[i] EXCEPT !.status = w.status, !.updatedAt = w.updatedAt]
     ELSE s[i]]

\* a later write of the transaction to a document replaces its earlier one
AddWrites(ws, new) == {w \in ws : \A n \in new : n.id # w.id} \cup new

\* the request arrives and waits for activation_lock
ActivateIssue(r, mid, ver) ==
  /\ Free(r)
  /\ Continue(r,
       [IdleReq EXCEPT !.op = "activate", !.pc = "activate_wait",
                       !.modelId = mid, !.version = ver])
  /\ UNCHANGED <<store, clock, lock, tx, svc>>
  /\ UNCHANGED Outside

\* async with activation_lock, find_one and the status checks
ActivateAcquire(r) ==
  /\ req[r].pc = "activate_wait"
  /\ lock = 0
  /\ LET i == FindOne(Matches(store, req[r].modelId, req[r].version))
     IN IF i = 0
        THEN /\ Respond(r, "error")
             /\ UNCHANGED <<clock, lock>>
        ELSE IF store[i].status = "active"
        THEN /\ Respond(r, "ok")
             /\ UNCHANGED <<clock, lock>>
        ELSE IF store[i].status = "archived"
        THEN /\ Respond(r, "error")
             /\ UNCHANGED <<clock, lock>>
        ELSE /\ clock + 1 < MaxClock
             /\ Continue(r,
                  [IdleReq EXCEPT !.op = "activate", !.pc = "activate_deactivate", !.target = i,
                                  !.doc = StatusSet("inactive", clock)])
             /\ clock' = clock + 1
             /\ lock' = r
  /\ UNCHANGED <<store, tx, svc>>
  /\ UNCHANGED Outside

\* update_many({"status": "active"}, ..., session=session): the first operation
\* of the transaction, which reads the store as it is now
TxDeactivateAll(r) ==
  /\ req[r].pc = "activate_deactivate"
  /\ LET ws == DeactivateWrites(store, req[r].doc.updatedAt)
     IN IF UpdateManyInSession
        THEN /\ tx' = [open |-> TRUE, writes |-> ws, dirty |-> {}]
             /\ UNCHANGED store
        ELSE /\ tx' = [open |-> TRUE, writes |-> {}, dirty |-> {}]
             /\ store' = ApplyWrites(store, ws)
  /\ svc' = Publish(svc, UpdateEvents(store, store',
                     WriteOrder(DeactivateWrites(store, req[r].doc.updatedAt), 0)))
  /\ clock < MaxClock
  /\ Continue(r, [req[r] EXCEPT !.pc = "activate_target",
                                 !.doc = StatusSet("active", clock)])
  /\ clock' = clock + 1
  /\ UNCHANGED lock
  /\ UNCHANGED Outside

\* update_one({"_id": model["_id"]}, ..., session=session); a document written by
\* another request since the transaction began is a write conflict, which aborts
TxActivateTarget(r) ==
  /\ req[r].pc = "activate_target"
  /\ LET id == req[r].target
         ws == ActivateWrite(id, req[r].doc.updatedAt)
     IN IF id \in tx.dirty
        THEN /\ tx' = NoTx
             /\ lock' = 0
             /\ Respond(r, "failed")
             /\ UNCHANGED store
        ELSE /\ IF UpdateOneInSession
                THEN /\ tx' = [tx EXCEPT !.writes = AddWrites(@, ws)]
                     /\ UNCHANGED store
                ELSE /\ store' = ApplyWrites(store, ws)
                     /\ UNCHANGED tx
             /\ Continue(r, [req[r] EXCEPT !.pc = "activate_commit", !.doc = NoDoc])
             /\ UNCHANGED lock
  /\ svc' = Publish(svc, UpdateEvents(store, store', <<req[r].target>>))
  /\ UNCHANGED clock
  /\ UNCHANGED Outside

\* leaving session.start_transaction() commits; the lock is released on return
TxCommit(r) ==
  /\ req[r].pc = "activate_commit"
  /\ store' = ApplyWrites(store, tx.writes)
  /\ svc' = Publish(svc, UpdateEvents(store, store', WriteOrder(tx.writes, req[r].target)))
  /\ tx' = NoTx
  /\ lock' = 0
  /\ Respond(r, "ok")
  /\ UNCHANGED clock
  /\ UNCHANGED Outside

InTransaction(r) ==
  req[r].pc \in {"activate_deactivate", "activate_target", "activate_commit"}

\* a store error inside the transaction block: the transaction is aborted and
\* the exception leaves the handler, releasing the lock
ActivateInterrupted(r) ==
  /\ InTransaction(r)
  /\ tx' = NoTx
  /\ lock' = 0
  /\ Respond(r, "failed")
  /\ UNCHANGED <<store, clock, svc>>
  /\ UNCHANGED Outside

----------------------------------------------------------------------------
(* RiskModelService: load_active_model and the change stream watcher *)

\* the clients a RiskModelService can be constructed with: dependencies.py
\* passes the synchronous MongoClient, the awaits of the service need the
\* asynchronous one
Clients == {"MongoClient", "AsyncIOMotorClient"}

\* the state of a process before get_risk_model_service is first called;
\* current_model is {}.  handed tells whether get_risk_model_service has
\* returned the service to a caller, and whether every service it returned had
\* is_running set and a model loaded ("ready") or not ("unready").
NewService ==
  [pc |-> "new", client |-> None, current_model |-> NoDoc, is_running |-> FALSE,
   watcher |-> "none", queue |-> <<>>, doc |-> NoDoc, handed |-> "no"]

\* _create_default_model
DefaultModel(ts) ==
  [modelId |-> "default-risk-model-v1", version |-> 1, status |-> "active",
   createdAt |-> ts, updatedAt |-> ts,
   description |-> "D", weights |-> "D", thresholds |-> "D", riskFactors |-> "D",
   performance |-> "nulls"]

\* start_change_stream creates the watch_changes task, then start sets
\* is_running and get_risk_model_service returns the service to its first caller
StartChangeStream(sv) ==
  [sv EXCEPT !.pc = "started", !.watcher = "created", !.is_running = TRUE,
             !.handed = IF @ = "no" THEN "ready" ELSE @]

\* the first call of get_risk_model_service in process p: the service is built
\* and start is awaited up to find_one({"status": "active"}) of
\* load_active_model.  Awaiting the document (or None) that the synchronous
\* client returns raises TypeError, which leaves start.
GetRiskModelService(p, client) ==
  /\ svc[p].pc = "new"
  /\ IF client = "MongoClient"
     THEN /\ svc' = [svc EXCEPT ![p].pc = "failed", ![p].client = client]
          /\ UNCHANGED clock
     ELSE LET model == FindOne({i \in DOMAIN store : store[i].status = "active"})
          IN IF model # 0
             THEN /\ svc' = [svc EXCEPT ![p] =
                       StartChangeStream([@ EXCEPT !.client = client,
                                                   !.current_model = store[model]])]
                  /\ UNCHANGED clock
             ELSE /\ clock < MaxClock
                  /\ Len(store) + PendingInserts < MaxModels
                  /\ svc' = [svc EXCEPT ![p].pc = "load_insert", ![p].client = client,
                                        ![p].doc = DefaultModel(clock)]
                  /\ clock' = clock + 1
  /\ out' = NoOut
  /\ UNCHANGED <<store, lock, tx, req>>
  /\ UNCHANGED Outside

\* insert_one(model) of load_active_model, then current_model = model and
\* start_change_stream
LoadInsert(p) ==
  /\ svc[p].pc = "load_insert"
  /\ store' = Append(store, svc[p].doc)
  /\ svc' = [Publish(svc, <<ChangeEvent("insert", svc[p].doc)>>) EXCEPT ![p] =
               StartChangeStream([@ EXCEPT !.current_model = svc[p].doc, !.doc = NoDoc])]
  /\ out' = NoOut
  /\ UNCHANGED <<clock, lock, tx, req>>
  /\ UNCHANGED Outside

\* the watch_changes task runs: async with self.db.risk_models.watch(pipeline)
WatchOpen(p) ==
  /\ svc[p].watcher = "created"
  /\ svc' = [svc EXCEPT ![p].watcher = "open", ![p].queue = <<>>]
  /\ out' = NoOut
  /\ UNCHANGED <<store, clock, lock, tx, req>>
  /\ UNCHANGED Outside

\* one iteration of async for change in stream
WatchChange(p) ==
  /\ svc[p].watcher = "open"
  /\ svc[p].queue # <<>>
  /\ svc' = [svc EXCEPT ![p].current_model = Head(svc[p].queue).fullDocument,
                        ![p].queue = Tail(@)]
  /\ out' = NoOut
  /\ UNCHANGED <<store, clock, lock, tx, req>>
  /\ UNCHANGED Outside

\* the stream raises (transport failure): the exception leaves async for and
\* async with, which are outside the try, and ends the watch_changes task
StreamFails(p) ==
  /\ svc[p].watcher = "open"
  /\ svc' = [svc EXCEPT ![p].watcher = "failed", ![p].queue = <<>>]
  /\ out' = NoOut
  /\ UNCHANGED <<store, clock, lock, tx, req>>
  /\ UNCHANGED Outside

\* a later call of get_risk_model_service in process p: _risk_model_service is
\* not None (it was assigned before start was awaited), so the service is
\* returned as it is
GetRiskModelServiceAgain(p) ==
  /\ svc[p].pc # "new"
  /\ svc' = [svc EXCEPT ![p].handed =
               IF svc[p].is_running /\ svc[p].current_model # NoDoc /\ @ # "unready"
               THEN "ready" ELSE "unready"]
  /\ out' = NoOut
  /\ UNCHANGED <<store, clock, lock, tx, req>>
  /\ UNCHANGED Outside

\* stop of a started service: change_stream is None (nothing ever assigns it),
\* so nothing is closed and the watch_changes task goes on; is_running = False
Stop(p) ==
  /\ svc[p].pc = "started"
  /\ svc' = [svc EXCEPT ![p].pc = "stopped", ![p].is_running = FALSE]
  /\ out' = NoOut
  /\ UNCHANGED <<store, clock, lock, tx, req>>
  /\ UNCHANGED Outside

\* mutant of ThresholdSource: the watcher runs between the reads of evaluate_risk
ThresholdSourceLater(sv) ==
  IF sv.watcher = "open" /\ sv.queue # <<>> THEN Head(sv.queue).fullDocument
  ELSE sv.current_model

\* the model _get_risk_factor_threshold reads: self.current_model, in the same
\* synchronous call as the other reads of evaluate_risk
ThresholdSource(sv) == sv.current_model

\* evaluate_risk on a service a caller holds: a plain function, so no other
\* task of the event loop runs inside it.  The assessment is recorded with the
\* documents its weights and its thresholds were read from; the amounts of
\* the transaction and of the customer profile are left out.
EvaluateRisk(p) ==
  /\ svc[p].handed # "no"
  /\ model_risk' = IF svc[p].current_model = NoDoc
             THEN [kind |-> "default", by |-> p,
                   evaluatedWith |-> <<"default-fallback", 0>>]
             ELSE [kind |-> "model", by |-> p,
                   weights_of |-> svc[p].current_model,
                   thresholds_of |-> ThresholdSource(svc[p]),
                   evaluatedWith |-> <<svc[p].current_model.modelId,
                                       svc[p].current_model.version>>]
  /\ out' = NoOut
  /\ UNCHANGED <<store, clock, lock, tx, req, svc>>
  /\ UNCHANGED <<perf, customers, assessment, response, calc, sockets>>

\* The collection outlives the process: a run starts on an empty collection or
\* on one left by earlier requests (create m1 at time 0, activate it at times
\* 1 and 2, create m1 again at time 3).
SeededStore ==
  <<[NewModel("m1", 1, CHOOSE c \in CreateInputs : TRUE, 0)
       EXCEPT !.status = "active", !.updatedAt = 2],
    NewModel("m1", 2, CHOOSE c \in CreateInputs : TRUE, 3)>>

\* the run starts after the last of these requests
StartClock == SeededStore[Len(SeededStore)].updatedAt + 1

Init ==
  /\ store \in {<<>>, SeededStore}
  /\ clock = StartClock
  /\ lock = 0
  /\ tx = NoTx
  /\ req = [r \in Reqs |-> IdleReq]
  /\ out = NoOut
  /\ svc = [p \in Procs |-> NewService]
  /\ perf = <<>>
  /\ customers = <<>>
  /\ assessment = NoAssessment
  /\ response = NoResponse
  /\ calc = NoCalc
  /\ model_risk = NoRisk
  /\ sockets = NoSockets

Next ==
  \/ \E r \in Reqs, mid \in ModelIds, c \in CreateInputs : CreateFind(r, mid, c)
  \/ \E r \in Reqs : CreateInsert(r)
  \/ \E r \in Reqs, mid \in ModelIds, u \in UpdateInputs : UpdateFind(r, mid, u)
  \/ \E r \in Reqs : UpdateInsert(r)
  \/ \E r \in Reqs : UpdateSet(r)
  \/ \E r \in Reqs, mid \in ModelIds, ver \in VersionArgs : ArchiveFind(r, mid, ver)
  \/ \E r \in Reqs : ArchiveCount(r)
  \/ \E r \in Reqs : ArchiveSet(r)
  \/ \E r \in Reqs, mid \in ModelIds, ver \in VersionArgs : RestoreFind(r, mid, ver)
  \/ \E r \in Reqs : RestoreSet(r)
  \/ \E r \in Reqs, mid \in ModelIds, ver \in VersionArgs : ActivateIssue(r, mid, ver)
  \/ \E r \in Reqs : ActivateAcquire(r)
  \/ \E r \in Reqs : TxDeactivateAll(r)
  \/ \E r \in Reqs : TxActivateTarget(r)
  \/ \E r \in Reqs : TxCommit(r)
  \/ \E r \in Reqs : ActivateInterrupted(r)

Spec == Init /\ [][Next]_vars

----------------------------------------------------------------------------
(* FraudDetectionService: the detectors and the aggregated score *)

\* Numbers are integers: a risk in [0,1] is held in units of 1/RiskScale, a
\* score in [0,100] in units of 1/ScoreScale of a point, a weight in hundredths.
\* The inputs of the model are chosen so that every division is exact.
RiskScale == 3000

ScoreScale == 30000

Min(a, b) == IF a <= b THEN a ELSE b

Max(a, b) == IF a >= b THEN a ELSE b

Abs(a) == IF a >= 0 THEN a ELSE 0 - a

AMOUNT_THRESHOLD_MULTIPLIER == 3

MAX_LOCATION_DISTANCE_KM == 500

VELOCITY_THRESHOLD == 5

WEIGHT_AMOUNT == 25

WEIGHT_LOCATION == 25

WEIGHT_DEVICE == 20

WEIGHT_VELOCITY == 15

WEIGHT_PATTERN == 15

\* a detector's answer: (is_anomalous, risk)
Detected(anomalous, risk) == [anomalous |-> anomalous, risk |-> risk]

\* mutant of CheckAmountAnomaly: the 5-10x band scaled over ten averages
CheckAmountAnomalyWide(t, c) ==
  IF c.avg_transaction_amount = 0 \/ c.std_transaction_amount = 0
  THEN Detected(TRUE, (6 * RiskScale) \div 10)
  ELSE LET avg == c.avg_transaction_amount
       IN Detected(t.amount > 5 * avg,
                   Min(RiskScale,
                       (85 * RiskScale) \div 100
                         + (Max(0, t.amount - 5 * avg) * 15 * RiskScale) \div (10 * avg * 100)))

\* _check_amount_anomaly
CheckAmountAnomaly(t, c) ==
  IF c.avg_transaction_amount = 0 \/ c.std_transaction_amount = 0
  THEN Detected(TRUE, (6 * RiskScale) \div 10)
  ELSE LET avg == c.avg_transaction_amount
           std == c.std_transaction_amount
           dev == Abs(t.amount - avg)
           anomalous == dev > AMOUNT_THRESHOLD_MULTIPLIER * std \/ t.amount > 5 * avg
       IN IF t.amount >= 10 * avg
          THEN Detected(anomalous, RiskScale)
          ELSE IF t.amount >= 5 * avg
          THEN Detected(anomalous,
                 (85 * RiskScale) \div 100
                   + ((t.amount - 5 * avg) * 15 * RiskScale) \div (5 * avg * 100))
          ELSE Detected(anomalous,
                 Min(RiskScale, (dev * RiskScale) \div (std * AMOUNT_THRESHOLD_MULTIPLIER * 2)))

\* the places of the model and _calculate_haversine_distance between them, in km
Places == {"home", "near", "far"}

HaversineDistance(a, b) ==
  IF a = b THEN 0
  ELSE IF {a, b} = {"home", "near"} THEN 100
  ELSE IF {a, b} = {"home", "far"} THEN 600
  ELSE 700

\* _check_location_anomaly
CheckLocationAnomaly(t, c) ==
  IF c.usual_transaction_locations = {}
  THEN Detected(TRUE, RiskScale \div 2)
  ELSE LET ds == {HaversineDistance(t.location, l) : l \in c.usual_transaction_locations}
           min_distance_km == SetMin(ds)
           anomalous == min_distance_km > MAX_LOCATION_DISTANCE_KM
       IN IF anomalous
          THEN Detected(TRUE,
                 Max((85 * RiskScale) \div 100,
                     Min(RiskScale,
                         (min_distance_km * RiskScale * 10) \div (MAX_LOCATION_DISTANCE_KM * 12))))
          ELSE Detected(FALSE,
                 Min(RiskScale \div 2,
                     (min_distance_km * RiskScale) \div MAX_LOCATION_DISTANCE_KM))

\* _check_device_anomaly
CheckDeviceAnomaly(t, c) ==
  IF t.device_id = Empty
  THEN Detected(TRUE, RiskScale \div 2)
  ELSE IF \E d \in c.devices : d.device_id = t.device_id
  THEN Detected(FALSE, 0)
  ELSE IF t.ip # Empty /\ \E d \in c.devices : t.ip \in d.ip_range
  THEN Detected(TRUE, RiskScale \div 2)
  ELSE Detected(TRUE, (9 * RiskScale) \div 10)

\* _check_transaction_velocity, given the number of documents its query
\* returns; a store error is caught and answered (False, 0.0)
CheckTransactionVelocity(transaction_count, failed) ==
  IF failed
  THEN Detected(FALSE, 0)
  ELSE Detected(transaction_count >= VELOCITY_THRESHOLD,
                Min(RiskScale,
                    (transaction_count * RiskScale * 10) \div (VELOCITY_THRESHOLD * 15)))

\* mutant of CalculateRiskScore: the standard weighted average on every input
CalculateRiskScoreFlat(amount_risk, location_risk, device_risk, velocity_risk, pattern_risk, customer_base_risk) ==
  Min(((amount_risk * WEIGHT_AMOUNT + location_risk * WEIGHT_LOCATION
          + device_risk * WEIGHT_DEVICE + velocity_risk * WEIGHT_VELOCITY
          + pattern_risk * WEIGHT_PATTERN) * (ScoreScale \div RiskScale) * 7
         + customer_base_risk * 3) \div 10,
      100 * ScoreScale)

\* _calculate_risk_score: the risks in units of 1/RiskScale, customer_base_risk
\* and the result in units of 1/ScoreScale of a point
CalculateRiskScore(amount_risk, location_risk, device_risk, velocity_risk, pattern_risk, customer_base_risk) ==
  LET perRisk == ScoreScale \div RiskScale
      \* transaction_weighted_score * 100
      transaction_risk ==
        (amount_risk * WEIGHT_AMOUNT + location_risk * WEIGHT_LOCATION
           + device_risk * WEIGHT_DEVICE + velocity_risk * WEIGHT_VELOCITY
           + pattern_risk * WEIGHT_PATTERN) * perRisk
      max_possible_single_risk ==
        Max(Max(Max(amount_risk, location_risk), Max(device_risk, velocity_risk)),
            pattern_risk) * 100 * perRisk
      combined_risk ==
        IF max_possible_single_risk >= 80 * ScoreScale
        THEN (transaction_risk * 5 + max_possible_single_risk * 3
                + customer_base_risk * 2) \div 10
        ELSE (transaction_risk * 7 + customer_base_risk * 3) \div 10
  IN Min(combined_risk, 100 * ScoreScale)

\* _determine_risk_level
DetermineRiskLevel(risk_score) ==
  IF risk_score < 35 * ScoreScale THEN "low"
  ELSE IF risk_score < 55 * ScoreScale THEN "medium"
  ELSE "high"

\* round(risk_score, 2), in hundredths of a point
Round2(x) ==
  LET unit == ScoreScale \div 100
      q == x \div unit
      r == x % unit
  IN IF 2 * r > unit THEN q + 1
     ELSE IF 2 * r < unit THEN q
     ELSE IF q % 2 = 0 THEN q ELSE q + 1

----------------------------------------------------------------------------
(* Calls of the scoring functions on their own *)

\* factor risks handed to _calculate_risk_score (0, 0.5, 0.8, 1.0) and
\* customer base risks (0, 29.16, 100), in the units of the model
RiskInputs == {0, RiskScale \div 2, (8 * RiskScale) \div 10, RiskScale}

BaseRiskInputs == {0, (2916 * ScoreScale) \div 100, 100 * ScoreScale}

\* amounts, averages and standard deviations handed to _check_amount_anomaly
AmountInputs == {0, 100, 250, 500, 700, 1000, 2000}

AverageInputs == {0, 100}

DeviationInputs == {0, 50}

\* the calls: the arguments of _calculate_risk_score as evaluate_transaction
\* passes them, and (amount, avg, std) of _check_amount_anomaly
CalcInputs ==
  {[fn |-> "_calculate_risk_score", args |-> <<a, l, d, v, p, b>>, done |-> FALSE,
    result |-> None] :
     a \in RiskInputs, l \in RiskInputs, d \in RiskInputs, v \in RiskInputs,
     p \in {0, RiskScale}, b \in BaseRiskInputs}
    \cup {[fn |-> "_check_amount_anomaly", args |-> <<amount, avg, std>>,
             done |-> FALSE, result |-> None] :
            amount \in AmountInputs, avg \in AverageInputs, std \in DeviationInputs}

\* risk_score = self._calculate_risk_score(...) and
\* risk_level = self._determine_risk_level(risk_score)
CallCalculateRiskScore ==
  /\ calc.fn = "_calculate_risk_score"
  /\ ~calc.done
  /\ LET risk_score == CalculateRiskScore(calc.args[1], calc.args[2], calc.args[3],
                                          calc.args[4], calc.args[5], calc.args[6])
     IN calc' = [calc EXCEPT !.done = TRUE,
                             !.result = [risk_score |-> risk_score,
                                         risk_level |-> DetermineRiskLevel(risk_score)]]
  /\ UNCHANGED <<store, clock, lock, tx, req, out, svc, perf, customers, assessment, response, model_risk, sockets>>

\* amount_anomaly, amount_risk = self._check_amount_anomaly(transaction, customer)
CallCheckAmountAnomaly ==
  /\ calc.fn = "_check_amount_anomaly"
  /\ ~calc.done
  /\ calc' = [calc EXCEPT !.done = TRUE, !.result =
                CheckAmountAnomaly([amount |-> calc.args[1]],
                                   [avg_transaction_amount |-> calc.args[2],
                                    std_transaction_amount |-> calc.args[3]])]
  /\ UNCHANGED <<store, clock, lock, tx, req, out, svc, perf, customers, assessment, response, model_risk, sockets>>

CalcInit ==
  /\ store = <<>>
  /\ clock = 0
  /\ lock = 0
  /\ tx = NoTx
  /\ req = [r \in Reqs |-> IdleReq]
  /\ out = NoOut
  /\ svc = [p \in Procs |-> NewService]
  /\ perf = <<>>
  /\ customers = <<>>
  /\ assessment = NoAssessment
  /\ response = NoResponse
  /\ calc \in CalcInputs
  /\ model_risk = NoRisk
  /\ sockets = NoSockets

CalcNext == CallCalculateRiskScore \/ CallCheckAmountAnomaly

CalcSpec == CalcInit /\ [][CalcNext]_vars

----------------------------------------------------------------------------
(* FraudDetectionService.evaluate_transaction and the customers collection *)

\* customer_id strings that ObjectId.is_valid accepts (24 hexadecimal digits)
HexIds == {"aaa", "bbb"}

\* the customer_id of a transaction: absent, empty, the _id of a customer held as
\* ObjectId, the _id of a customer held as string, an account number, and an
\* identifier of no customer
CustomerIdInputs == {None, Empty, "aaa", "bbb", "acc1", "zzz"}

ObjectId(h) == <<"ObjectId", h>>

Str(x) == <<"str", x>>

\* query_id: ObjectId(customer_id) if ObjectId.is_valid(customer_id), else the string
QueryId(customer_id) ==
  IF customer_id \in HexIds THEN ObjectId(customer_id) ELSE Str(customer_id)

FindById(cs, id) == FindOne({i \in DOMAIN cs : cs[i]._id = id})

FindByAccount(cs, customer_id) ==
  FindOne({i \in DOMAIN cs : cs[i].account_number = customer_id})

\* find().limit(1): the first customer in natural order
FirstCustomer(cs) == FindOne(DOMAIN cs)

\* customers[0] of the broader search
Fallback(cs) == FirstCustomer(cs)

\* the customer that the lookup of evaluate_transaction ends with and the
\* number of queries it has sent, 0 standing for no customer
LookupCustomer(cs, customer_id) ==
  LET byId == FindById(cs, QueryId(customer_id))
      byStr == IF byId = 0 /\ customer_id \in HexIds
               THEN FindById(cs, Str(customer_id)) ELSE byId
      byAccount == IF byStr = 0 THEN FindByAccount(cs, customer_id) ELSE byStr
      found == IF byAccount = 0 THEN Fallback(cs) ELSE byAccount
  IN [customer |-> found,
      lookups |-> 1 + (IF byId = 0 /\ customer_id \in HexIds THEN 1 ELSE 0)
                    + (IF byStr = 0 THEN 2 ELSE 0)]

\* the document that update_one of _update_customer_risk_profile matches: the
\* filter is {"_id": query_id}, and query_id is replaced only by the fallback
UpdateTarget(cs, customer_id) ==
  LET byId == FindById(cs, QueryId(customer_id))
      byStr == IF byId = 0 /\ customer_id \in HexIds
               THEN FindById(cs, Str(customer_id)) ELSE byId
      byAccount == IF byStr = 0 THEN FindByAccount(cs, customer_id) ELSE byStr
  IN IF byId # 0 THEN byId
     ELSE IF byAccount # 0 THEN 0
     ELSE FirstCustomer(cs)

\* len(flags) * 2.5
RiskIncrement(flags) == (Len(flags) * 25 * ScoreScale) \div 10

\* _update_customer_risk_profile: $set last_risk_assessment, $addToSet
\* risk_factors, $inc overall_risk_score; every exception is caught and logged
UpdateCustomerRiskProfile(cs, customer_id, flags, ts, failed) ==
  LET i == UpdateTarget(cs, customer_id)
  IN IF failed \/ i = 0
     THEN cs
     ELSE [cs EXCEPT ![i].last_risk_assessment = ts,
                     ![i].risk_factors = @ \cup {flags[k] : k \in DOMAIN flags},
                     ![i].overall_risk_score = @ + RiskIncrement(flags)]

\* the flags in the order evaluate_transaction appends them
FlagsOf(amount, location, device, velocity) ==
  (IF amount.anomalous THEN <<"unusual_amount">> ELSE <<>>)
    \o (IF location.anomalous THEN <<"unexpected_location">> ELSE <<>>)
    \o (IF device.anomalous THEN <<"unknown_device">> ELSE <<>>)
    \o (IF velocity.anomalous THEN <<"velocity_alert">> ELSE <<>>)

Detectors == {"amount", "location", "device", "velocity"}

\* the store operation of one evaluation that finds the store unavailable
Faults == {"none", "lookup", "velocity", "update"}

\* mutant of MissingCustomerId: the check is never taken
MissingCustomerIdNever(t) == FALSE

\* not customer_id
MissingCustomerId(t) == ~Truthy(t.customer_id)

\* the value evaluate_transaction returns, with the customer it used, the
\* detectors it ran, the customer queries it sent, whether it called
\* _update_customer_risk_profile and the store operation that failed
RiskAssessment(cs, t, transaction_count, fault) ==
  IF MissingCustomerId(t)
  THEN [NoAssessment EXCEPT !.kind = "assessment", !.score = 50 * 100, !.level = "medium",
                            !.flags = <<"missing_customer_reference">>,
                            !.transaction_type = "suspicious",
                            !.customer_id = t.customer_id]
  ELSE LET look == IF fault = "lookup"
                   THEN [customer |-> 0, lookups |-> 1]
                   ELSE LookupCustomer(cs, t.customer_id)
       IN IF look.customer = 0
          THEN [NoAssessment EXCEPT !.kind = "assessment", !.score = 70 * 100,
                                    !.level = "high", !.flags = <<"customer_not_found">>,
                                    !.transaction_type = "suspicious",
                                    !.customer_id = t.customer_id,
                                    !.lookups = look.lookups,
                                    !.failed = IF fault = "lookup" THEN fault ELSE "none"]
          ELSE LET c == cs[look.customer]
                   amount == CheckAmountAnomaly(t, c)
                   location == CheckLocationAnomaly(t, c)
                   device == CheckDeviceAnomaly(t, c)
                   velocity == CheckTransactionVelocity(transaction_count, fault = "velocity")
                   risk_score ==
                     CalculateRiskScore(
                       IF amount.anomalous THEN amount.risk ELSE 0,
                       IF location.anomalous THEN location.risk ELSE 0,
                       IF device.anomalous THEN device.risk ELSE 0,
                       IF velocity.anomalous THEN velocity.risk ELSE 0,
                       0,
                       c.overall_risk_score)
                   risk_level == DetermineRiskLevel(risk_score)
               IN [kind |-> "assessment", score |-> Round2(risk_score), level |-> risk_level,
                   flags |-> FlagsOf(amount, location, device, velocity),
                   transaction_type |-> IF risk_level = "high" THEN "fraudulent"
                                        ELSE IF risk_level = "medium" THEN "suspicious"
                                        ELSE "legitimate",
                   customer_id |-> t.customer_id, customer |-> look.customer,
                   ran |-> Detectors, lookups |-> look.lookups,
                   feedback |-> risk_level = "high",
                   failed |-> IF fault = "velocity" \/ (fault = "update" /\ risk_level = "high")
                              THEN fault ELSE "none"]

\* a customer document: behavioral_profile and risk_profile;
\* last_risk_assessment 0 is a profile never assessed
Customer(id, account, avg, std, locations, devices, score) ==
  [_id |-> id, account_number |-> account,
   avg_transaction_amount |-> avg, std_transaction_amount |-> std,
   usual_transaction_locations |-> locations, devices |-> devices,
   overall_risk_score |-> score, risk_factors |-> {}, last_risk_assessment |-> 0]

\* the overall_risk_score of the first customer when a run starts, in points
BaseScores == {0, 95}

\* a customer with history whose _id is an ObjectId, and a customer without
\* history whose _id is a string
SeededCustomers(base) ==
  <<Customer(ObjectId("aaa"), "acc1", 100, 50, {"home"},
             {[device_id |-> "d1", ip_range |-> {"ip1"}]}, base * ScoreScale),
    Customer(Str("bbb"), "acc2", 0, 0, {}, {}, 0)>>

\* the seeded customers, the one without history holding an overall_risk_score
\* of 29.16
BoundaryCustomers ==
  [SeededCustomers(0) EXCEPT ![2].overall_risk_score = (2916 * ScoreScale) \div 100]

\* the transactions of the model, customer_id apart: a usual one, one of ten
\* times the usual amount, one unusual in amount, place and device, one from
\* an unknown device on a known address, and one far away without device
TransactionShapes ==
  {[amount |-> 100, location |-> "home", device_id |-> "d1", ip |-> "ip1"],
   [amount |-> 1000, location |-> "home", device_id |-> "d1", ip |-> "ip1"],
   [amount |-> 1000, location |-> "far", device_id |-> "dX", ip |-> Empty],
   [amount |-> 100, location |-> "near", device_id |-> "dX", ip |-> "ip1"],
   [amount |-> 100, location |-> "far", device_id |-> Empty, ip |-> Empty]}

\* the number of documents the velocity query returns
CountInputs == {0, 6}

TransactionInputs ==
  {[customer_id |-> cid, amount |-> sh.amount, location |-> sh.location,
    device_id |-> sh.device_id, ip |-> sh.ip] :
     cid \in CustomerIdInputs, sh \in TransactionShapes}

\* one call of evaluate_transaction (from POST /transactions/evaluate or POST
\* /transactions/): nothing in it yields to the event loop, the store client
\* being synchronous, so the call is one step
EvaluateTransaction(t, transaction_count, fault) ==
  LET a == RiskAssessment(customers, t, transaction_count, fault)
  IN /\ assessment' = a
     /\ IF a.feedback
        THEN /\ clock < MaxClock
             /\ clock' = clock + 1
             /\ customers' = UpdateCustomerRiskProfile(customers, t.customer_id, a.flags,
                                                       clock, fault = "update")
        ELSE UNCHANGED <<clock, customers>>
     /\ UNCHANGED <<store, lock, tx, req, out, svc, perf, response, calc, model_risk, sockets>>

FraudInit ==
  /\ store = <<>>
  /\ clock = StartClock
  /\ lock = 0
  /\ tx = NoTx
  /\ req = [r \in Reqs |-> IdleReq]
  /\ out = NoOut
  /\ svc = [p \in Procs |-> NewService]
  /\ perf = <<>>
  /\ customers \in {<<>>, BoundaryCustomers} \cup {SeededCustomers(base) : base \in BaseScores}
  /\ assessment = NoAssessment
  /\ response = NoResponse
  /\ calc = NoCalc
  /\ model_risk = NoRisk
  /\ sockets = NoSockets

FraudNext ==
  \E t \in TransactionInputs, transaction_count \in CountInputs, fault \in Faults :
    EvaluateTransaction(t, transaction_count, fault)

FraudSpec == FraudInit /\ [][FraudNext]_vars

----------------------------------------------------------------------------
(* find_similar_transactions and POST /transactions/evaluate *)

\* similarity risk scores are in thousandths; the quotients of the source are
\* truncated to a thousandth
SimScale == 1000

\* a document the vector search returns: score is the vectorSearchScore in
\* tenths, risk_score the stored risk_assessment.score in points, flags the
\* number of stored flags
Neighbour(score, amount, level, transaction_type, risk_score, flags) ==
  [score |-> score, amount |-> amount, level |-> level,
   transaction_type |-> transaction_type, risk_score |-> risk_score, flags |-> flags]

RECURSIVE Sum(_)
Sum(xs) == IF xs = <<>> THEN 0 ELSE Head(xs) + Sum(Tail(xs))

RECURSIVE SqrtBetween(_, _, _)
SqrtBetween(n, lo, hi) ==
  IF lo = hi THEN lo
  ELSE LET mid == (lo + hi + 1) \div 2
       IN IF mid * mid <= n THEN SqrtBetween(n, mid, hi) ELSE SqrtBetween(n, lo, mid - 1)

\* the greatest r with r * r <= n, for n up to SimScale * SimScale
ISqrt(n) == SqrtBetween(n, 0, SimScale)

\* x ** 1.5 for x in thousandths
Pow15(x) == (x * ISqrt(x * SimScale)) \div SimScale

\* amount_similarity, in tenths
AmountSimilarity(current_amount, similar_amount) ==
  IF similar_amount > 0 /\ current_amount > 0
  THEN LET lo == Min(current_amount, similar_amount)
           hi == Max(current_amount, similar_amount)
       IN IF lo * 100 > 95 * hi THEN 10
          ELSE IF lo * 10 > 8 * hi THEN 8
          ELSE IF lo * 2 > hi THEN 6
          ELSE 4
  ELSE 10

\* position_weight of the result at index idx (from 0), in twentieths: of
\* find_similar_transactions, and of the route for its display list
PositionWeight(idx, display) ==
  IF display THEN 20 - 2 * idx
  ELSE IF idx < 5 THEN 20 ELSE Max(10, 20 - (idx - 5))

\* the list a result is appended to: find_similar_transactions looks at the
\* level and the transaction_type, the route at the level only
Category(t, display) ==
  IF t.level = "high" \/ (~display /\ t.transaction_type = "fraudulent") THEN "high"
  ELSE IF t.level = "medium" \/ (~display /\ t.transaction_type = "suspicious") THEN "medium"
  ELSE IF t.level = "low" \/ (~display /\ t.transaction_type = "legitimate") THEN "low"
  ELSE "medium"

\* score_entry: similarity is final_similarity = weighted_similarity * 0.7 +
\* amount_similarity * 0.3 in units of 1/2000, risk_score is in hundredths
ScoreEntries(ts, current_amount, display) ==
  [k \in DOMAIN ts |->
     [similarity |-> ts[k].score * PositionWeight(k - 1, display) * 7
                       + AmountSimilarity(current_amount, ts[k].amount) * 60,
      risk_score |-> ts[k].risk_score,
      flags |-> ts[k].flags,
      category |-> Category(ts[k], display)]]

IsHigh(e) == e.category = "high"

IsMedium(e) == e.category = "medium"

IsLow(e) == e.category = "low"

\* the risk score of a non-empty result list, from its score entries
SimilarityRisk(entries) ==
  LET high_risk_scores == SelectSeq(entries, IsHigh)
      medium_risk_scores == SelectSeq(entries, IsMedium)
      low_risk_scores == SelectSeq(entries, IsLow)
      score ==
        IF high_risk_scores # <<>>
        THEN LET weight == [k \in DOMAIN high_risk_scores |->
                              high_risk_scores[k].similarity
                                * (10 + high_risk_scores[k].flags)]
                 weighted_sum == Sum([k \in DOMAIN high_risk_scores |->
                                        high_risk_scores[k].risk_score * weight[k]])
                 total_weight == Sum(weight)
                 high_risk_factor == Min(SimScale,
                                         (weighted_sum * 10) \div Max(20000, total_weight))
                 high_risk_boost == Min(200, Len(high_risk_scores) * 50)
             IN Min(SimScale, high_risk_factor + high_risk_boost)
        ELSE IF low_risk_scores # <<>> /\ medium_risk_scores = <<>>
        THEN LET avg_similarity ==
                   Sum([k \in DOMAIN low_risk_scores |-> low_risk_scores[k].similarity])
                     \div (2 * Len(low_risk_scores))
             IN Max(50, SimScale - Pow15(avg_similarity))
        ELSE LET all_scores == high_risk_scores \o medium_risk_scores \o low_risk_scores
                 weight == [k \in DOMAIN all_scores |->
                              all_scores[k].similarity * (5 + all_scores[k].flags)]
                 weighted_sum == Sum([k \in DOMAIN all_scores |->
                                        all_scores[k].risk_score * weight[k]])
                 total_weight == Sum(weight)
             IN IF all_scores # <<>> /\ total_weight > 0
                THEN (weighted_sum * 10) \div total_weight
                ELSE SimScale \div 2
  IN Max(0, Min(SimScale, score))

\* the operation of find_similar_transactions that fails
RankerFaults == {"none", "embedding", "search", "count"}

\* mutant of Handler: find_similar_transactions without its outer try
HandlerWithoutOuterTry(fault) ==
  CASE fault = "embedding" -> "uncaught"
    [] fault = "search" -> "inner"
    [] fault = "count" -> "count"
    [] OTHER -> "none"

\* the except clause that catches the failure of an operation: get_embedding
\* is called inside the outer try only, collection.aggregate inside the inner
\* try, count_documents inside the try of _get_total_transaction_count
Handler(fault) ==
  CASE fault = "embedding" -> "outer"
    [] fault = "search" -> "inner"
    [] fault = "count" -> "count"
    [] OTHER -> "none"

\* what find_similar_transactions(transaction) does when the vector index
\* holds the neighbours and the transaction collection total documents:
\* it returns (similar_transactions, similarity_risk_score) or raises
FindSimilarTransactions(transaction, neighbours, total, fault) ==
  LET handler == Handler(fault)
  IN IF handler = "uncaught"
     THEN [raised |-> TRUE, similar_transactions |-> <<>>, similarity_risk_score |-> 0]
     ELSE IF handler = "outer"
     THEN [raised |-> FALSE, similar_transactions |-> <<>>,
           similarity_risk_score |-> SimScale \div 2]
     ELSE IF handler = "inner"
     THEN [raised |-> FALSE, similar_transactions |-> <<>>,
           similarity_risk_score |-> SimScale \div 2]
     ELSE IF neighbours # <<>>
     THEN [raised |-> FALSE, similar_transactions |-> neighbours,
           similarity_risk_score |->
             SimilarityRisk(ScoreEntries(neighbours, transaction.amount, FALSE))]
     ELSE LET transaction_count == IF handler = "count" THEN 0 ELSE total
          IN [raised |-> FALSE, similar_transactions |-> <<>>,
              similarity_risk_score |-> IF transaction_count > 10
                                        THEN (SimScale * 3) \div 4
                                        ELSE SimScale \div 2]

HasLevelHigh(t) == t.level = "high"

HasLevelMedium(t) == t.level = "medium"

HasLevelLow(t) == t.level = "low"

\* display_transactions: the results of level high, medium and low, those of
\* medium and high first for an unusual transaction, cut to five
DisplayTransactions(similar_transactions, risk_assessment) ==
  LET is_unusual == \/ risk_assessment.level \in {"medium", "high"}
                    \/ Len(risk_assessment.flags) > 0
      high_risk == SelectSeq(similar_transactions, HasLevelHigh)
      medium_risk == SelectSeq(similar_transactions, HasLevelMedium)
      low_risk == SelectSeq(similar_transactions, HasLevelLow)
      ordered == IF is_unusual THEN high_risk \o medium_risk \o low_risk
                 ELSE low_risk \o medium_risk \o high_risk
  IN IF Len(ordered) > 5 THEN SubSeq(ordered, 1, 5) ELSE ordered

\* the body POST /transactions/evaluate returns
EvaluateResponse(transaction, found, risk_assessment, fault) ==
  LET display_transactions == DisplayTransactions(found.similar_transactions, risk_assessment)
  IN [kind |-> "response", failed |-> fault, risk_assessment |-> risk_assessment,
      retrieved |-> found.similar_transactions,
      similar_transactions |-> display_transactions,
      similar_transactions_count |-> Len(found.similar_transactions),
      similarity_risk_score |->
        IF display_transactions # <<>>
        THEN SimilarityRisk(ScoreEntries(display_transactions, transaction.amount, TRUE))
        ELSE found.similarity_risk_score]

\* what the vector index returns: nothing, one usual low-risk transaction,
\* one transaction stored without risk level, a fraud and a usual
\* transaction, and eight results two of which carry no level
NeighbourInputs ==
  {<<>>,
   <<Neighbour(10, 100, "low", "legitimate", 10, 0)>>,
   <<Neighbour(9, 100, "unknown", "unknown", 50, 0)>>,
   <<Neighbour(9, 1000, "high", "fraudulent", 80, 2),
     Neighbour(8, 100, "low", "legitimate", 10, 0)>>,
   <<Neighbour(9, 100, "low", "legitimate", 10, 0),
     Neighbour(9, 900, "unknown", "fraudulent", 50, 1),
     Neighbour(8, 100, "medium", "suspicious", 50, 1),
     Neighbour(8, 100, "high", "fraudulent", 70, 3),
     Neighbour(7, 100, "low", "legitimate", 20, 0),
     Neighbour(7, 100, "unknown", "unknown", 50, 0),
     Neighbour(6, 100, "low", "legitimate", 0, 0),
     Neighbour(6, 100, "medium", "suspicious", 40, 1)>>}

\* the number of documents of the transaction collection
TotalInputs == {0, 11}

\* the runs of find_similar_transactions: every result list without failure,
\* the count failing on an empty result, and the embedding and the search
\* failing where the index has nothing and where it has results
RankerCases ==
  {c \in [neighbours : NeighbourInputs, total : TotalInputs, fault : RankerFaults] :
     /\ (c.neighbours # <<>> => c.total = 0)
     /\ (c.fault = "count" => (c.neighbours = <<>> /\ c.total = 11))
     /\ (c.fault \in {"embedding", "search"} =>
           (c.total = 0 /\ Len(c.neighbours) \in {0, 2}))}

\* the transactions sent to the route
RouteTransactions ==
  {t \in TransactionInputs :
     /\ t.customer_id \in {None, "aaa", "zzz"}
     /\ t.device_id # Empty
     /\ (t.amount = 100 => t.location = "home")}

\* POST /transactions/evaluate: find_similar_transactions, which writes
\* nothing and reads the vector index only, then evaluate_transaction, then
\* the display list and its score.  An exception of find_similar_transactions
\* leaves the handler before evaluate_transaction is called.
EvaluateRoute(t, neighbours, total, ranker_fault, transaction_count, fault) ==
  LET found == FindSimilarTransactions(t, neighbours, total, ranker_fault)
      a == RiskAssessment(customers, t, transaction_count, fault)
  IN /\ IF found.raised
        THEN /\ response' = [NoResponse EXCEPT !.kind = "error", !.failed = ranker_fault]
             /\ UNCHANGED <<assessment, clock, customers>>
        ELSE /\ assessment' = a
             /\ response' = EvaluateResponse(t, found, a, ranker_fault)
             /\ IF a.feedback
                THEN /\ clock < MaxClock
                     /\ clock' = clock + 1
                     /\ customers' = UpdateCustomerRiskProfile(customers, t.customer_id,
                                                               a.flags, clock, fault = "update")
                ELSE UNCHANGED <<clock, customers>>
     /\ UNCHANGED <<store, lock, tx, req, out, svc, perf, calc, model_risk, sockets>>

RouteInit ==
  /\ store = <<>>
  /\ clock = StartClock
  /\ lock = 0
  /\ tx = NoTx
  /\ req = [r \in Reqs |-> IdleReq]
  /\ out = NoOut
  /\ svc = [p \in Procs |-> NewService]
  /\ perf = <<>>
  /\ customers \in {<<>>, SeededCustomers(0)}
  /\ assessment = NoAssessment
  /\ response = NoResponse
  /\ calc = NoCalc
  /\ model_risk = NoRisk
  /\ sockets = NoSockets

RouteNext ==
  \E t \in RouteTransactions, c \in RankerCases, transaction_count \in CountInputs,
     fault \in Faults :
    EvaluateRoute(t, c.neighbours, c.total, c.fault, transaction_count, fault)

RouteSpec == RouteInit /\ [][RouteNext]_vars

----------------------------------------------------------------------------
(* The model_performance collection and provide_transaction_feedback *)

TransactionIds == {"t1", "t2"}

OutcomeInputs == {"legitimate", "fraud", "unknown"}

\* the performance_record of _record_model_usage: outcome is None
PerformanceRecord(mid, version, tid) ==
  [modelId |-> mid, modelVersion |-> version, transactionId |-> tid,
   outcome |-> None, feedbackTime |-> None]

\* the records of earlier evaluations; a transaction evaluated twice has two
SeededPerformance ==
  <<PerformanceRecord("m1", 1, "t1"), PerformanceRecord("m1", 1, "t2"),
    PerformanceRecord("m1", 1, "t1")>>

\* POST /models/{model_id}/feedback: the outcome is validated, then
\* update_one({"modelId", "transactionId"}, {"$set": {"outcome", "feedbackTime"}})
\* writes the first matching record; matched_count == 0 is answered 404
ProvideTransactionFeedback(mid, tid, outcome) ==
  /\ IF outcome \notin {"legitimate", "fraud"}
     THEN /\ out' = "error"
          /\ UNCHANGED <<perf, clock>>
     ELSE LET i == FindOne({k \in DOMAIN perf :
                              perf[k].modelId = mid /\ perf[k].transactionId = tid})
          IN /\ clock < MaxClock
             /\ clock' = clock + 1
             /\ IF i = 0
                THEN /\ out' = "error"
                     /\ UNCHANGED perf
                ELSE /\ perf' = [perf EXCEPT ![i].outcome = outcome,
                                             ![i].feedbackTime = clock]
                     /\ out' = "ok"
  /\ UNCHANGED <<store, lock, tx, req, svc, customers, assessment, response, calc, model_risk, sockets>>

PerfInit ==
  /\ store = <<>>
  /\ clock = 0
  /\ lock = 0
  /\ tx = NoTx
  /\ req = [r \in Reqs |-> IdleReq]
  /\ out = NoOut
  /\ svc = [p \in Procs |-> NewService]
  /\ perf = SeededPerformance
  /\ customers = <<>>
  /\ assessment = NoAssessment
  /\ response = NoResponse
  /\ calc = NoCalc
  /\ model_risk = NoRisk
  /\ sockets = NoSockets

PerfNext ==
  \E mid \in ModelIds, tid \in TransactionIds, outcome \in OutcomeInputs :
    ProvideTransactionFeedback(mid, tid, outcome)

PerfSpec == PerfInit /\ [][PerfNext]_vars

\* The propagator with the activation requests it has to follow: every process
\* may build its service, and the watcher task is scheduled by the event loop
\* whenever it can run.
PropNext ==
  \/ \E p \in Procs, client \in Clients : GetRiskModelService(p, client)
  \/ \E p \in Procs : LoadInsert(p)
  \/ \E p \in Procs : WatchOpen(p)
  \/ \E p \in Procs : WatchChange(p)
  \/ \E p \in Procs : StreamFails(p)
  \/ \E r \in Reqs, mid \in ModelIds, ver \in VersionArgs : ActivateIssue(r, mid, ver)
  \/ \E r \in Reqs : ActivateAcquire(r)
  \/ \E r \in Reqs : TxDeactivateAll(r)
  \/ \E r \in Reqs : TxActivateTarget(r)
  \/ \E r \in Reqs : TxCommit(r)

PropSpec ==
  /\ Init
  /\ [][PropNext]_vars
  /\ \A p \in Procs : WF_vars(WatchOpen(p)) /\ WF_vars(WatchChange(p))

\* the service on its own: start-up in each process, the watcher, later calls
\* of get_risk_model_service, evaluate_risk and stop
ServiceNext ==
  \/ \E p \in Procs, client \in Clients : GetRiskModelService(p, client)
  \/ \E p \in Procs : LoadInsert(p)
  \/ \E p \in Procs : WatchOpen(p)
  \/ \E p \in Procs : WatchChange(p)
  \/ \E p \in Procs : StreamFails(p)
  \/ \E p \in Procs : GetRiskModelServiceAgain(p)
  \/ \E p \in Procs : Stop(p)
  \/ \E p \in Procs : EvaluateRisk(p)

ServiceSpec == Init /\ [][ServiceNext]_vars

-----------------------------------------------------------------------------
(* The websocket observers of /models/change-stream *)

\* seconds between two cleanups of active_connections
CleanupPeriod == 300

\* seconds since last_cleanup_time when a websocket connects
ElapsedInputs == {10, CleanupPeriod + 1}

\* the websockets in a list
InList(list) == {list[i] : i \in DOMAIN list}

\* mutant of Ping: a websocket whose client is connected answers the ping
PingAnswers(w) == sockets.handler[w].connected

\* await ws.ping() in cleanup_stale_connections: ws is a fastapi WebSocket,
\* which has no ping, so the attribute lookup raises AttributeError for every
\* websocket, before anything is awaited; except Exception takes it as stale
Ping(w) == FALSE

\* cleanup_stale_connections: no ping suspends, so the loop and the assignment
\* of still_active to active_connections run without another task in between
CleanupStaleConnections(list) == SelectSeq(list, LAMBDA w : Ping(w))

\* websocket_endpoint up to async with db.watch: accept, append, and the
\* cleanup when more than CleanupPeriod seconds passed since the last one
WsConnect(w, elapsed) ==
  /\ sockets.handler[w].pc = "new"
  /\ LET appended == Append(sockets.active_connections, w)
         due == elapsed > CleanupPeriod
     IN sockets' = [sockets EXCEPT
          !.active_connections = IF due THEN CleanupStaleConnections(appended)
                                 ELSE appended,
          !.handler[w] = [pc |-> "initial", connected |-> TRUE],
          !.cleaned = IF due THEN TRUE ELSE @,
          !.appended = ~due]
  /\ UNCHANGED <<store, clock, lock, tx, req, out, svc>>
  /\ UNCHANGED <<perf, customers, assessment, response, calc, model_risk>>

\* the client of w goes away; websocket_endpoint is not told
WsClientDisconnects(w) ==
  /\ sockets.handler[w].connected
  /\ sockets' = [sockets EXCEPT !.handler[w].connected = FALSE]
  /\ UNCHANGED <<store, clock, lock, tx, req, out, svc>>
  /\ UNCHANGED <<perf, customers, assessment, response, calc, model_risk>>

\* the except branches of websocket_endpoint: the websocket leaves
\* active_connections if it is in it, and the handler returns
WsRemove(w) ==
  [sockets EXCEPT
     !.active_connections = SelectSeq(@, LAMBDA x : x # w),
     !.removed = IF w \in InList(sockets.active_connections)
                    /\ ~sockets.handler[w].connected
                 THEN @ \cup {w} ELSE @,
     !.handler[w] = [pc |-> "done", connected |-> FALSE]]

\* send_json of the initial models: it raises when the client has gone
WsSendInitial(w) ==
  /\ sockets.handler[w].pc = "initial"
  /\ sockets' = IF sockets.handler[w].connected
                THEN [sockets EXCEPT !.handler[w].pc = "streaming"]
                ELSE WsRemove(w)
  /\ UNCHANGED <<store, clock, lock, tx, req, out, svc>>
  /\ UNCHANGED <<perf, customers, assessment, response, calc, model_risk>>

\* send_json of a change to a client that has gone raises; to a connected
\* client it changes nothing
WsSendChange(w) ==
  /\ sockets.handler[w].pc = "streaming"
  /\ ~sockets.handler[w].connected
  /\ sockets' = WsRemove(w)
  /\ UNCHANGED <<store, clock, lock, tx, req, out, svc>>
  /\ UNCHANGED <<perf, customers, assessment, response, calc, model_risk>>

\* the change stream or the find raises: except Exception
WsHandlerFails(w) ==
  /\ sockets.handler[w].pc \in {"initial", "streaming"}
  /\ sockets' = WsRemove(w)
  /\ UNCHANGED <<store, clock, lock, tx, req, out, svc>>
  /\ UNCHANGED <<perf, customers, assessment, response, calc, model_risk>>

WsNext ==
  \/ \E w \in Observers, elapsed \in ElapsedInputs : WsConnect(w, elapsed)
  \/ \E w \in Observers : WsClientDisconnects(w)
  \/ \E w \in Observers : WsSendInitial(w)
  \/ \E w \in Observers : WsSendChange(w)
  \/ \E w \in Observers : WsHandlerFails(w)

WsSpec == Init /\ [][WsNext]_vars

TypeOK ==
  /\ clock \in 0..MaxClock
  /\ lock \in 0..NumReq
  /\ Len(store) <= MaxModels
  /\ out \in {NoOut, "ok", "error", "failed"}
  /\ tx.open \in BOOLEAN

----------------------------------------------------------------------------
(* Properties of the lifecycle *)

ActiveModels == {i \in DOMAIN store : store[i].status = "active"}

\* the step is taken by request r
StepOf(r) == req'[r] # req[r]

ActivationCommit ==
  [][\A r \in Reqs :
       (req[r].pc = "activate_commit" /\ StepOf(r) /\ out' = "ok") =>
         /\ store'[req[r].target].status = "active"
         /\ \A i \in ActiveModels \ {req[r].target} : store'[i].status = "inactive"
         /\ {i \in DOMAIN store' : store'[i].status = "active"} = {req[r].target}]_vars

\* C2 witness: an activation of this run has committed; the model it made
\* active and the model it deactivated just before are both in the store.
ActivatedOverActive ==
  /\ out = "ok"
  /\ \E i \in DOMAIN store, j \in DOMAIN store :
       /\ store[i].status = "active"
       /\ store[j].status = "inactive"
       /\ StartClock <= store[j].updatedAt
       /\ store[j].updatedAt < store[i].updatedAt

\* C3: no step of an activation between acquiring the lock and the commit
\* changes the store, an interruption (store error) at any point of the
\* transaction included: the statuses change at the commit or not at all.
InterruptedActivationInvisible ==
  [][\A r \in Reqs :
       (InTransaction(r) /\ StepOf(r) /\ ~(req[r].pc = "activate_commit" /\ out' = "ok")) =>
         store' = store]_vars

\* C3 witness: the transaction has deactivated the active model and has not yet
\* activated the target; the store still shows the model active.
DeactivatedInsideTransaction ==
  \E r \in Reqs :
    /\ req[r].pc = "activate_target"
    /\ \E w \in tx.writes : w.status = "inactive" /\ store[w.id].status = "active"

\* C4: once a model is active, every later state has an active model.
ActiveModelRemains ==
  [][ActiveModels # {} => \E i \in DOMAIN store' : store'[i].status = "active"]_vars

\* C5: an archive request whose target is the only active model ends with an
\* error, and no step of it changes any model record.
ArchiveOnlyActiveRejected ==
  [][\A r \in Reqs :
       /\ (req'[r].pc = "archive_count" /\ StepOf(r)) =>
            (store' = store /\ store[req'[r].target].status = "active")
       /\ (req[r].pc = "archive_count" /\ StepOf(r) /\ ActiveModels = {req[r].target}) =>
            (out' = "error" /\ req'[r] = IdleReq /\ store' = store)]_vars

\* C5 witness: an archive request has found its target, which is the only
\* active model.
ArchivingOnlyActive ==
  \E r \in Reqs : req[r].pc = "archive_count" /\ ActiveModels = {req[r].target}

AllowedTransitions ==
  {<<"draft", "active">>, <<"active", "inactive">>, <<"inactive", "active">>,
   <<"draft", "archived">>, <<"active", "archived">>, <<"inactive", "archived">>,
   <<"archived", "inactive">>}

\* C6: every status is one of draft, active, inactive, archived, and every
\* status change is one of the allowed transitions.
LifecycleTransitions ==
  [][\A i \in DOMAIN store' :
       /\ store'[i].status \in Statuses
       /\ (i \in DOMAIN store /\ store'[i].status # store[i].status) =>
            <<store[i].status, store'[i].status>> \in AllowedTransitions]_vars

\* C7: create inserts a draft whose version is 1 for a modelId without records
\* and the maximum existing version of the modelId plus 1 otherwise.
CreateVersion ==
  [][\A r \in Reqs :
       (req[r].pc = "create_insert" /\ StepOf(r)) =>
         LET new == store'[Len(store')]
             vs == {store[i].version : i \in Matches(store, new.modelId, 0)}
         IN /\ Len(store') = Len(store) + 1
            /\ new.status = "draft"
            /\ new.version = IF vs = {} THEN 1
                             ELSE (CHOOSE v \in vs : \A w \in vs : w <= v) + 1]_vars

\* C8: no two records share (modelId, version), and a record of a modelId has a
\* greater version than every record of that modelId inserted before it.
VersionsIncrease ==
  \A i \in DOMAIN store, j \in DOMAIN store :
    (i < j /\ store[i].modelId = store[j].modelId) => store[i].version < store[j].version

ConfigFields == {"description", "weights", "thresholds", "riskFactors"}

\* C9: an update that finds an active model and does not set status archived
\* builds a draft of the next version with performance unset, every field not
\* given in the update carried over from the active record, and inserts it
\* leaving every record of the store, the active one included, unchanged.
UpdateOfActiveForks ==
  [][\A r \in Reqs :
       /\ (req'[r].pc = "update_insert" /\ StepOf(r)) =>
            LET model == store[req'[r].target]
                u == req'[r].update
                new == req'[r].doc
            IN /\ model.status = "active"
               /\ u.status # "archived"
               /\ new.modelId = model.modelId
               /\ new.version = model.version + 1
               /\ new.status = "draft"
               /\ new.performance = PerformanceUnset
               /\ new.createdAt = model.createdAt
               /\ \A f \in ConfigFields : u[f] = None => new[f] = model[f]
               /\ \A f \in ConfigFields : Truthy(u[f]) => new[f] = u[f]
               /\ store' = store
       /\ (req[r].pc = "update_insert" /\ StepOf(r)) =>
            store' = Append(store, req[r].doc)
       /\ (req'[r].pc = "update_set" /\ StepOf(r)) =>
            (store[req'[r].target].status # "active" \/ req'[r].doc.status = "archived")]_vars

\* C9 witness: the store holds an active model and the draft forked from it.
ForkedDraftInStore ==
  \E i \in DOMAIN store, j \in DOMAIN store :
    /\ store[i].status = "active"
    /\ store[j].status = "draft"
    /\ store[j].modelId = store[i].modelId
    /\ store[j].version = store[i].version + 1
    /\ store[j].createdAt = store[i].createdAt
    /\ j > i

\* C10: an archived record is changed by restore only, which sets its status to
\* inactive (and its updatedAt); no other request changes any of its fields.
ArchivedImmutable ==
  [][\A i \in DOMAIN store :
       (store[i].status = "archived" /\ store'[i] # store[i]) =>
         \E r \in Reqs :
           /\ req[r].pc = "restore_set"
           /\ StepOf(r)
           /\ req[r].target = i
           /\ store'[i] = [store[i] EXCEPT !.status = "inactive",
                                           !.updatedAt = req[r].doc.updatedAt]]_vars

\* C11: an archive request whose target is already archived is not carried
\* out: the step that finds the archived target does not go on to the write,
\* and a step of an archive request on an archived target ends with an error
\* and leaves the store as it was.
DoubleArchiveRejected ==
  [][\A r \in Reqs :
       /\ (Free(r) /\ StepOf(r) /\ req'[r].op = "archive") =>
            store[req'[r].target].status # "archived"
       /\ (req[r].pc = "archive_set" /\ StepOf(r)
             /\ store[req[r].target].status = "archived") =>
            (out' = "error" /\ store' = store)]_vars

\* the (modelId, version) of a model document
ModelKey(d) == <<d.modelId, d.version>>

\* C12: if a model is activated and stays active (no further lifecycle change
\* follows), the cached current_model of every started propagator whose
\* subscription does not fail eventually is that model (same modelId and
\* version).
ActivationPropagates ==
  \A p \in Procs : \A i \in 1..MaxModels :
    <>[](svc[p].is_running /\ svc[p].watcher # "failed"
           /\ i \in DOMAIN store /\ store[i].status = "active")
      => <>(i \in DOMAIN store /\ svc[p].current_model # NoDoc
              /\ ModelKey(svc[p].current_model) = ModelKey(store[i]))

\* C13: a propagator whose change subscription has failed subscribes again.
StreamFailureResubscribes ==
  \A p \in Procs : (svc[p].watcher = "failed") ~> (svc[p].watcher = "open")

\* C14: the outcome of a performance record is null until a feedback call sets
\* it, and once it is set no later step changes it.
OutcomeSetOnce ==
  [][\A i \in DOMAIN perf :
       /\ perf[i].outcome # None => perf'[i].outcome = perf[i].outcome
       /\ perf'[i].outcome # perf[i].outcome => out' = "ok"]_vars

\* the customers that customer_id names: by _id (as ObjectId or as string) or
\* by account number
MatchingCustomers(cs, customer_id) ==
  {i \in DOMAIN cs : \/ cs[i]._id \in {ObjectId(customer_id), Str(customer_id)}
                     \/ cs[i].account_number = customer_id}

\* C15: an evaluation whose customer_id names no record of the customer
\* collection returns score 70, level high, flags [customer_not_found] and has
\* run no detector, whatever other customers the collection holds.
CustomerNotFoundShortCircuit ==
  (/\ assessment.kind = "assessment"
   /\ Truthy(assessment.customer_id)
   /\ MatchingCustomers(customers, assessment.customer_id) = {})
    => /\ assessment.score = 70 * 100
       /\ assessment.level = "high"
       /\ assessment.flags = <<"customer_not_found">>
       /\ assessment.ran = {}

\* C16: an evaluation of a transaction without customer_id returns score 50,
\* level medium, flags [missing_customer_reference], and has sent no customer
\* query, run no detector and written nothing.
MissingCustomerReference ==
  [][(assessment'.kind = "assessment" /\ ~Truthy(assessment'.customer_id))
       => /\ assessment'.score = 50 * 100
          /\ assessment'.level = "medium"
          /\ assessment'.flags = <<"missing_customer_reference">>
          /\ assessment'.lookups = 0
          /\ assessment'.ran = {}
          /\ ~assessment'.feedback
          /\ customers' = customers]_vars

\* C16 witness: the last evaluation had no customer_id while the collection
\* holds customers, one of them already raised by an earlier evaluation.
EvaluatedWithoutCustomerId ==
  /\ assessment.kind = "assessment"
  /\ ~Truthy(assessment.customer_id)
  /\ \E i \in DOMAIN customers : customers[i].risk_factors # {}

\* C17: the overall_risk_score of every customer stays in [0,100].
OverallRiskScoreInRange ==
  \A i \in DOMAIN customers :
    /\ 0 <= customers[i].overall_risk_score
    /\ customers[i].overall_risk_score <= 100 * ScoreScale

\* C18: an evaluation that ends high and whose store operations all succeed
\* adds its flags to the risk_factors of the customer it evaluated and raises
\* that customer's overall_risk_score by 2.5 per flag; an evaluation that ends
\* low or medium changes no customer; no step lowers an overall_risk_score.
FeedbackOnHigh ==
  [][/\ (assessment'.kind = "assessment" /\ (clock' # clock \/ assessment' # assessment)) =>
          /\ (assessment'.level = "high" /\ assessment'.customer # 0
                /\ assessment'.failed = "none") =>
               LET i == assessment'.customer
               IN /\ {assessment'.flags[k] : k \in DOMAIN assessment'.flags}
                       \subseteq customers'[i].risk_factors
                  /\ customers'[i].overall_risk_score =
                       customers[i].overall_risk_score
                         + (Len(assessment'.flags) * 25 * ScoreScale) \div 10
          /\ assessment'.level \in {"low", "medium"} => customers' = customers
     /\ \A i \in DOMAIN customers :
          customers'[i].overall_risk_score >= customers[i].overall_risk_score]_vars

\* C19: when the customer lookup or the velocity query of an evaluation finds
\* the store unavailable, the evaluation returns no risk assessment.
StoreFailureSurfaces ==
  assessment.failed \in {"lookup", "velocity"} => assessment.kind # "assessment"

\* C20: when the embedding provider or the nearest-neighbour query fails,
\* find_similar_transactions returns instead of raising, with similarity risk
\* score 0.5 and, when the embedding failed, an empty list, and the
\* /transactions/evaluate request answers with its risk assessment.
RankerFailureDegrades ==
  response.failed \in {"embedding", "search"} =>
    /\ response.kind = "response"
    /\ response.similarity_risk_score = SimScale \div 2
    /\ response.failed = "embedding" =>
         (response.similar_transactions_count = 0 /\ response.similar_transactions = <<>>)
    /\ response.risk_assessment.kind = "assessment"
    /\ response.risk_assessment.level \in {"low", "medium", "high"}

\* C20 witness: the route has answered a request whose embedding failed, with
\* the assessment of a known customer that the detectors produced.
AnsweredWithoutEmbedding ==
  /\ response.failed = "embedding"
  /\ response.kind = "response"
  /\ response.risk_assessment.customer # 0
  /\ response.risk_assessment.ran = Detectors

\* the weighted transaction risk and the greatest factor of a call of
\* _calculate_risk_score, in units of 1/ScoreScale of a point
TransactionRisk(args) ==
  (args[1] * 25 + args[2] * 25 + args[3] * 20 + args[4] * 15 + args[5] * 15)
    * (ScoreScale \div RiskScale)

MaxFactor(args) ==
  LET m == CHOOSE x \in {args[k] : k \in 1..5} : \A y \in {args[k] : k \in 1..5} : y <= x
  IN m * 100 * (ScoreScale \div RiskScale)

\* C21: the aggregated score is 0.5 transactionRisk + 0.3 maxFactor + 0.2
\* customerBase when maxFactor >= 80 and 0.7 transactionRisk + 0.3 customerBase
\* otherwise, inside [0,100]; amount risk 1.0 alone with customerBase 0 gives
\* 42.5 and level medium.
AggregatedScore ==
  (calc.fn = "_calculate_risk_score" /\ calc.done) =>
    LET args == calc.args
        score == calc.result.risk_score
        combined == IF MaxFactor(args) >= 80 * ScoreScale
                    THEN 5 * TransactionRisk(args) + 3 * MaxFactor(args) + 2 * args[6]
                    ELSE 7 * TransactionRisk(args) + 3 * args[6]
    IN /\ 0 <= score /\ score <= 100 * ScoreScale
       /\ combined <= 1000 * ScoreScale => 10 * score = combined
       /\ combined > 1000 * ScoreScale => score = 100 * ScoreScale
       /\ args = <<RiskScale, 0, 0, 0, 0, 0>> =>
            (2 * score = 85 * ScoreScale /\ calc.result.risk_level = "medium")

\* C21 witness: the call with amount risk 1.0 alone has returned.
AmountAloneScored ==
  /\ calc.fn = "_calculate_risk_score"
  /\ calc.args = <<RiskScale, 0, 0, 0, 0, 0>>
  /\ calc.done

\* C23 (as stated): with avg > 0 and std > 0 the amount risk is 1.0 at
\* amount/avg = 10 and 0.88 at amount/avg = 7.
AmountRiskAsStated ==
  (/\ calc.fn = "_check_amount_anomaly" /\ calc.done
   /\ calc.args[2] > 0 /\ calc.args[3] > 0) =>
    /\ calc.args[1] = 10 * calc.args[2] => calc.result.risk = RiskScale
    /\ calc.args[1] = 7 * calc.args[2] => 100 * calc.result.risk = 88 * RiskScale

\* C23: with avg > 0 and std > 0 the amount risk is 1.0 at amount/avg = 10
\* and 0.85 + (7 - 5) / 5 * 0.15 = 0.91 at amount/avg = 7.
AmountRiskAtRatios ==
  (/\ calc.fn = "_check_amount_anomaly" /\ calc.done
   /\ calc.args[2] > 0 /\ calc.args[3] > 0) =>
    /\ calc.args[1] = 10 * calc.args[2] => calc.result.risk = RiskScale
    /\ calc.args[1] = 7 * calc.args[2] => 100 * calc.result.risk = 91 * RiskScale

\* C23 witness: the detector has answered for an amount of seven averages of a
\* customer with history.
SevenAveragesChecked ==
  /\ calc.fn = "_check_amount_anomaly"
  /\ calc.done
  /\ calc.args[2] > 0 /\ calc.args[3] > 0
  /\ calc.args[1] = 7 * calc.args[2]
  /\ calc.result.anomalous

\* C22: the level of every returned assessment agrees with its returned
\* score: low iff score < 35, medium iff 35 <= score < 55, high iff score >= 55.
LevelAgreesWithScore ==
  assessment.kind = "assessment" =>
    /\ assessment.level = "low" <=> assessment.score < 35 * 100
    /\ assessment.level = "medium" <=>
         (35 * 100 <= assessment.score /\ assessment.score < 55 * 100)
    /\ assessment.level = "high" <=> assessment.score >= 55 * 100

\* C25: the feedback step of an evaluation changes the record of no customer
\* but the one the transaction's customer_id names.
FeedbackOnlyNamedCustomer ==
  [][\A i \in DOMAIN customers :
       customers'[i] # customers[i] =>
         i \in MatchingCustomers(customers, assessment'.customer_id)]_vars

InHighBucket(t) == t.level = "high"

InMediumBucket(t) == t.level \notin {"high", "low"}

InLowBucket(t) == t.level = "low"

\* C26: the display list is the retrieved neighbours ordered by category
\* (unknown counted as medium), high, medium, low for an unusual transaction
\* and low, medium, high otherwise, in rank order inside a category, cut to
\* five; its length is min(5, number retrieved).
DisplayKeepsNeighbours ==
  response.kind = "response" =>
    LET a == response.risk_assessment
        unusual == a.level \in {"medium", "high"} \/ Len(a.flags) > 0
        high == SelectSeq(response.retrieved, InHighBucket)
        medium == SelectSeq(response.retrieved, InMediumBucket)
        low == SelectSeq(response.retrieved, InLowBucket)
        ordered == IF unusual THEN high \o medium \o low ELSE low \o medium \o high
    IN /\ Len(response.similar_transactions) = Min(5, Len(response.retrieved))
       /\ response.similar_transactions = SubSeq(ordered, 1, Min(5, Len(ordered)))

\* C28: load_active_model never creates a second active model: the step that
\* inserts the default model is taken only when the store holds no active
\* model, and it leaves at most one active model in the store.
DefaultInsertedOnlyWithoutActive ==
  [][\A p \in Procs :
       (svc[p].pc = "load_insert" /\ svc'[p].pc # "load_insert")
         => /\ ActiveModels = {}
            /\ Cardinality({i \in DOMAIN store' : store'[i].status = "active"}) <= 1]_vars

\* C29: every service get_risk_model_service has returned to a caller was
\* running with a model loaded when it was returned.
HandedOutServiceStarted == \A p \in Procs : svc[p].handed # "unready"

\* C27: once stop has returned, the service stays stopped, is_running is false
\* and no step changes current_model.
StoppedServiceKeepsModel ==
  [][\A p \in Procs :
       svc[p].pc = "stopped"
         => /\ svc'[p].pc = "stopped"
            /\ ~svc'[p].is_running
            /\ svc'[p].current_model = svc[p].current_model]_vars

=============================================================================
